---- MODULE Spec2Model ----
(***************************************************************************)
(* Model of ds9SAMP/launcher.py: class DS9, a supervisor that spawns ds9,  *)
(* connects to its SAMP hub, discovers the ds9 client by name, runs a      *)
(* watchdog thread, serialises set/get/ping through one lock and tears     *)
(* everything down in exit().                                              *)
(*                                                                         *)
(* Threads: "main" (constructor, then a caller, then the interpreter's     *)
(* shutdown: atexit hook, __del__, end of the process), "user" (a second   *)
(* caller thread) and "watch" (the daemon thread started at lines 95-97).  *)
(*                                                                         *)
(* Time is discrete and kept in timers that Tick advances.  Whole ticks    *)
(* pass only in time.sleep, Event.wait, Thread.join, while a thread waits  *)
(* for the lock, while an ecall_and_wait awaits its reply, and while a     *)
(* caller is idle.  Python statements take a positive time shorter than a  *)
(* tick, so a clock read after n ticks of sleep shows more than n ticks.   *)
(***************************************************************************)
EXTENDS Integers, Sequences, FiniteSets, TLC

\* ---------------------------------------------------------------- bounds
MaxOps == 2         \* set/get/exit calls made by the callers, in total
MaxCmds == 2        \* longest command list passed to one set() call
MaxClients == 2     \* clients subscribed to ds9.set that a poll reports
MaxTitleLen == 2    \* longest title, in characters
MaxSec == 1         \* seconds of the clock readings: 0..MaxSec
MaxUs == 1          \* microseconds of the clock readings: 0..MaxUs
MaxSupervisors == 2 \* DS9 objects constructed in one process

\* ------------------------------------------- parameters of DS9.__init__
\* timeout, init_retry_time, poll_alive_time (when positive), the timeout
\* of set/get and the join timeout, scaled to clock ticks.
Timeout == 1        \* timeout
RetryTime == 1      \* init_retry_time (its default)
Period == 1         \* poll_alive_time, when positive
CallTimeout == 2    \* timeout of set/get
JoinTimeout == 1    \* the join timeout of exit()

Title == "T"
None == "None"
NoName == "<none>"
Names == {Title, "Tx", NoName}   \* samp.name of a client: the title, another
                                 \* name, or no samp.name in its metadata
Threads == {"main", "user", "watch"}
Callers == {"main", "user"}
NoThread == "none"
ExitCmd == "exit"
NoXchg == [kind |-> "none", to |-> None, cmd |-> "", age |-> 0]

VARIABLES
  cfg,        \* constructor arguments: exit_callback given, kill_on_exit,
              \* poll_alive_time > 0
  child,      \* the ds9 process: "none", "running", "frozen" (alive but
              \* answering nothing, its hub included), "killed" (SIGKILL
              \* sent, the process not yet terminated), "dead"
  hubUp,      \* ds9's hub exists (ds9 runs it in its own process)
  hubFile,    \* the hub endpoint file exists on disk
  silentFor,  \* for how long ds9 has not been answering (dead, or alive
              \* and frozen) with the watchdog loop running and the exit
              \* event unset, counted up to Period + 1 (-1: it answers)
  hostAlive,  \* the hosting python process is running (it ends by the
              \* SIGTERM of kill_on_exit or at the end of the shutdown)
  atexitReg,  \* atexit.register was called (line 54)
  pathSet,    \* self.__samp_hub_file is assigned
  made,       \* the hub names computed at lines 58-61 by the constructors
              \* run in this process so far: title, tnow, name, file
  procSet,    \* self.__process is assigned
  sampSet,    \* self.__samp is assigned
  connected,  \* self.__samp is connected to the hub
  clientId,   \* self.__samp_clientId
  elapsed,    \* time.time() - tstart in __init__, counted up to
              \* Timeout + 1
  evtexit,    \* self.__evtexit
  watcher,    \* self.__watcher: "unset", "running", "done"
  lock,       \* self.__lock: the holding thread or NoThread
  pc,         \* position of each thread
  timer,      \* time left in the sleep / wait / join of each thread
  cmds,       \* commands of the running set() still to issue, per thread
  sfrom,      \* the running call: "set" or "get" of a caller, "exit" for
              \* the set('exit') of exit()
  xfrom,      \* who called the running exit()
  xargs,      \* arguments of the running exit(): use_callback, main_thread
  err,        \* exception in flight in / delivered by each thread
  xchg,       \* hub exchange in flight per thread
  ops,        \* calls made by the callers so far
  cerr,       \* the exception e caught at line 98 of __init__
  hist        \* history: what each operation did (observations only)

envVars == <<child, hubUp, hubFile, silentFor, hostAlive>>
objVars == <<atexitReg, pathSet, made, procSet, sampSet, connected, clientId,
             elapsed, evtexit, watcher, lock>>
thrVars == <<pc, timer, cmds, sfrom, xfrom, xargs, err, xchg, ops, cerr>>
vars == <<cfg, envVars, objVars, thrVars, hist>>

Configs == [cb : BOOLEAN, koe : BOOLEAN, watch : BOOLEAN]

NoExitRec == [tried |-> <<>>, raised |-> {}]
NoSetRec == [input |-> <<>>, issued |-> <<>>, answered |-> 0, rejected |-> {}]

HistInit ==
  [ exit |-> [t \in Threads |-> NoExitRec],  \* the exit() running in t:
                                             \* steps attempted, in order,
                                             \* and the steps that raised
    set |-> [t \in Threads |-> NoSetRec],    \* the set()/get() running in t
    exits |-> 0,            \* exit() invocations that returned (up to 2)
    cbCount |-> 0,          \* calls of exit_callback (up to 2)
    handshakeId |-> None,   \* the id the discovery loop found
    titleSeen |-> FALSE,    \* a poll reported a client named title
    unsetIssued |-> FALSE,  \* an exchange was issued with clientId None
    lateProbes |-> 0,       \* probes issued with evtexit already set
    explicitExit |-> FALSE, \* a caller invoked exit()
    watchCause |-> "none",  \* why the watchdog loop ended
    attempts |-> 0,         \* connect and discovery attempts of __init__
    late |-> 0,             \* those made with the deadline passed
    sleeps |-> 0,           \* time.sleep(init_retry_time) calls of __init__
    poll |-> <<>>           \* the client list of the poll that succeeded
  ]

Init ==
  /\ cfg \in Configs
  /\ child = "none" /\ hubUp = FALSE /\ hubFile = FALSE
  /\ silentFor = -1 /\ hostAlive = TRUE
  /\ atexitReg = FALSE /\ pathSet = FALSE /\ made = <<>> /\ procSet = FALSE
  /\ sampSet = FALSE /\ connected = FALSE /\ clientId = None
  /\ elapsed = 0 /\ evtexit = FALSE /\ watcher = "unset" /\ lock = NoThread
  /\ pc = [t \in Threads |-> IF t = "main" THEN "c_start" ELSE "off"]
  /\ timer = [t \in Threads |-> 0]
  /\ cmds = [t \in Threads |-> <<>>]
  /\ sfrom = [t \in Threads |-> "set"]
  /\ xfrom = [t \in Threads |-> "call"]
  /\ xargs = [t \in Threads |-> [use_callback |-> TRUE, main_thread |-> TRUE]]
  /\ err = [t \in Threads |-> "none"]
  /\ xchg = [t \in Threads |-> NoXchg]
  /\ ops = 0
  /\ cerr = "none"
  /\ hist = HistInit

\* ------------------------------------------------------------ helpers
ClientName(i) == "c" \o ToString(i)

\* DS9.__get_samp_clientId: the first client, in the hub's order, whose
\* samp.name equals title; c_meta['samp.name'] raises KeyError for a client
\* whose metadata has no samp.name.
RECURSIVE ScanClients(_, _)
ScanClients(cl, title) ==
  IF cl = <<>> THEN [res |-> "none", id |-> None]
  ELSE IF Head(cl).name = NoName THEN [res |-> "KeyError", id |-> None]
  ELSE IF Head(cl).name = title THEN [res |-> "found", id |-> Head(cl).id]
  ELSE ScanClients(Tail(cl), title)

\* What get_subscribed_clients('ds9.set') and get_metadata report in one
\* poll: the subscribed clients in the hub's order, each with its samp.name
ClientLists ==
  UNION {{[i \in 1..n |-> [id |-> ClientName(i), name |-> f[i]]] :
            f \in [1..n -> Names]} : n \in 0..MaxClients}

\* get_samp_clientId that takes the first subscribed client, whatever its
\* name
get_first_clientId(cl, title) ==
  IF cl = <<>> THEN [res |-> "none", id |-> None]
  ELSE [res |-> "found", id |-> Head(cl).id]

get_samp_clientId(cl, title) == ScanClients(cl, title)

\* time.time() - tstart > timeout.  elapsed counts the whole ticks slept
\* since tstart; the clock reading is later than that by the time the
\* statements in between took, which is positive and less than a tick, so
\* it exceeds timeout exactly when elapsed has reached it.
DeadlinePassed == elapsed >= Timeout

\* one more attempt of a handshake loop, followed or not by a sleep
Attempt(h, sleeps) ==
  [h EXCEPT !.attempts = @ + 1,
            !.late = IF DeadlinePassed THEN @ + 1 ELSE @,
            !.sleeps = IF sleeps THEN @ + 1 ELSE @]

\* ----------------------------------------------- the hub endpoint name
\* Strings are sequences of one-character strings.
Digit == <<"0", "1", "2", "3", "4", "5", "6", "7", "8", "9">>
Digits == {Digit[i] : i \in 1..10}
Letters == {"a", "Z", "T", "u", "t", "c", "p", "i", "d", "s", "m"}
\* the characters a title is made of
TitleChars == {"a", "Z", "7", ".", "_", " ", "/", "\\"}
Titles == UNION {[1..n -> TitleChars] : n \in 0..MaxTitleLen}
\* values of datetime.now(UTC) within one minute
Times == [sec : 0..MaxSec, us : 0..MaxUs]
\* os.getpid()
Pid == 4242

\* str(n) for n >= 0
RECURSIVE Str(_)
Str(n) == IF n < 10 THEN <<Digit[n + 1]>>
          ELSE Str(n \div 10) \o <<Digit[(n % 10) + 1]>>

\* f"{n:0wd}": decimal digits, zero-padded on the left to width w
RECURSIVE Pad(_, _)
Pad(str, w) == IF Len(str) >= w THEN str ELSE Pad(<<"0">> \o str, w)

\* tnow.strftime('%Y%m%dT%H%M%S'), the date and the minute being fixed
strftime(tnow) ==
  <<"2", "0", "2", "6", "0", "1", "0", "1", "T", "0", "0", "0", "0">>
    \o Pad(Str(tnow.sec), 2)

\* line 60: re.sub(r'[^A-Za-z0-9\\.]', '_', samp_hub_name).  In the raw
\* string the class reads: not a letter, not a digit, not a backslash, not
\* a dot; every character of that class becomes an underscore.
Sanitize(str) ==
  [i \in 1..Len(str) |->
     IF str[i] \in Letters \cup Digits \cup {"\\", "."} THEN str[i] ELSE "_"]

\* lines 59-60
samp_hub_name(title, tnow, pid) ==
  Sanitize(title \o <<"_", "u", "t", "c">> \o strftime(tnow) \o <<".">>
             \o Pad(Str(tnow.us), 6) \o <<"_", "p", "i", "d">> \o Str(pid))

\* line 61: f"{SAMP_HUB_PATH}/{samp_hub_name}.samp"
samp_hub_file(name) == <<"/">> \o name \o <<".", "s", "a", "m", "p">>

\* lines 58-61 of one constructor run
NameRec(title, tnow) ==
  LET name == samp_hub_name(title, tnow, Pid) IN
  [title |-> title, tnow |-> tnow, name |-> name,
   file |-> samp_hub_file(name)]

\* ------------------------------------------------------- environment
\* ds9 starts its hub and writes the hub endpoint file.
HubStart ==
  /\ hostAlive /\ child = "running" /\ ~hubUp
  /\ hubUp' = TRUE /\ hubFile' = TRUE
  /\ UNCHANGED <<cfg, child, silentFor, hostAlive, objVars,
                 thrVars, hist>>

\* ds9 dies on its own (crash, window closed): hub and peer stop answering.
PeerDies ==
  /\ hostAlive /\ child = "running"
  /\ child' = "dead" /\ hubUp' = FALSE /\ silentFor' = 0
  /\ UNCHANGED <<cfg, hubFile, hostAlive, objVars, thrVars,
                 hist>>

\* ds9 stops serving (stopped, busy, hung): the hub it runs accepts a
\* request and never answers it, so a hub call made from now on does not
\* return until ds9 is killed.
PeerFreezes ==
  /\ hostAlive /\ child = "running" /\ hubUp
  /\ child' = "frozen" /\ silentFor' = 0
  /\ UNCHANGED <<cfg, hubUp, hubFile, hostAlive, objVars, thrVars,
                 hist>>

\* a hub call made or pending now gets no answer: ds9 does not serve, or
\* it has SIGKILL pending and runs nothing more
Hung == child \in {"frozen", "killed"}

\* The kernel ends the process SIGKILL was sent to, some time after
\* Popen.kill() has returned (kill() does not wait): hub and peer are gone.
ChildEnds ==
  /\ child = "killed"
  /\ child' = "dead" /\ hubUp' = FALSE /\ silentFor' = 0
  /\ UNCHANGED <<cfg, hubFile, hostAlive, objVars, thrVars,
                 hist>>

\* ------------------------------------------------------ DS9.__init__
\* lines 47-54: the fields, and atexit.register(self.exit, ...)
CtorStart ==
  /\ hostAlive /\ pc["main"] = "c_start"
  /\ atexitReg' = TRUE
  /\ pc' = [pc EXCEPT !["main"] = "c_mkdir"]
  /\ UNCHANGED <<cfg, envVars, pathSet, made, procSet, sampSet, connected,
                 clientId, elapsed, evtexit, watcher, lock, timer, cmds,
                 sfrom, xfrom, xargs, err, xchg, ops, cerr, hist>>

\* lines 57-61: mkdir (may raise OSError), then the hub file name
CtorMkdir ==
  /\ hostAlive /\ pc["main"] = "c_mkdir"
  /\ \/ /\ pathSet' = TRUE
        /\ made' = <<NameRec(<<Title>>, [sec |-> 0, us |-> 0])>>
        /\ pc' = [pc EXCEPT !["main"] = "c_spawn"]
        /\ cerr' = cerr
     \/ /\ UNCHANGED <<pathSet, made>>
        /\ pc' = [pc EXCEPT !["main"] = "c_except"]
        /\ cerr' = "OSError"
  /\ UNCHANGED <<cfg, envVars, atexitReg, procSet, sampSet, connected,
                 clientId, elapsed, evtexit, watcher, lock, timer, cmds,
                 sfrom, xfrom, xargs, err, xchg, ops, hist>>

\* lines 68-73: Popen (may raise OSError), the SAMP client, clientId = None,
\* tstart = time.time()
CtorSpawn ==
  /\ hostAlive /\ pc["main"] = "c_spawn"
  /\ \/ /\ procSet' = TRUE /\ child' = "running"
        /\ sampSet' = TRUE /\ clientId' = None /\ elapsed' = 0
        /\ pc' = [pc EXCEPT !["main"] = "c_connect"]
        /\ cerr' = cerr
     \/ /\ UNCHANGED <<procSet, child, sampSet, clientId, elapsed>>
        /\ pc' = [pc EXCEPT !["main"] = "c_except"]
        /\ cerr' = "OSError"
  /\ UNCHANGED <<cfg, hubUp, hubFile, silentFor, hostAlive,
                 atexitReg, pathSet, made, connected, evtexit, watcher, lock,
                 timer, cmds, sfrom, xfrom, xargs, err, xchg, ops, hist>>

\* CtorConnect that takes tstart anew when the hub is found: the discovery
\* loop gets a deadline of its own
CtorConnectRestarts ==
  /\ hostAlive /\ pc["main"] = "c_connect" /\ ~Hung
  /\ IF hubUp
       THEN /\ connected' = TRUE /\ elapsed' = 0
            /\ pc' = [pc EXCEPT !["main"] = "c_poll"]
            /\ hist' = Attempt(hist, FALSE)
            /\ UNCHANGED <<cerr, timer>>
       ELSE \* SAMPHubError
            /\ UNCHANGED <<connected, elapsed>>
            /\ IF DeadlinePassed
                 THEN /\ cerr' = "hub not found"
                      /\ pc' = [pc EXCEPT !["main"] = "c_except"]
                      /\ hist' = Attempt(hist, FALSE)
                      /\ timer' = timer
                 ELSE /\ timer' = [timer EXCEPT !["main"] = RetryTime]
                      /\ pc' = [pc EXCEPT !["main"] = "c_csleep"]
                      /\ hist' = Attempt(hist, TRUE)
                      /\ cerr' = cerr
  /\ UNCHANGED <<cfg, envVars, atexitReg, pathSet, made, procSet, sampSet,
                 clientId, evtexit, watcher, lock, cmds, sfrom,
                 xfrom, xargs, err, xchg, ops>>

\* lines 75-83: one pass of the hub connect loop
CtorConnect ==
  /\ hostAlive /\ pc["main"] = "c_connect" /\ ~Hung
  /\ IF hubUp
       THEN /\ connected' = TRUE
            /\ pc' = [pc EXCEPT !["main"] = "c_poll"]
            /\ hist' = Attempt(hist, FALSE)
            /\ UNCHANGED <<cerr, timer>>
       ELSE \* SAMPHubError
            /\ connected' = connected
            /\ IF DeadlinePassed
                 THEN /\ cerr' = "hub not found"
                      /\ pc' = [pc EXCEPT !["main"] = "c_except"]
                      /\ hist' = Attempt(hist, FALSE)
                      /\ timer' = timer
                 ELSE /\ timer' = [timer EXCEPT !["main"] = RetryTime]
                      /\ pc' = [pc EXCEPT !["main"] = "c_csleep"]
                      /\ hist' = Attempt(hist, TRUE)
                      /\ cerr' = cerr
  /\ UNCHANGED <<cfg, envVars, atexitReg, pathSet, made, procSet, sampSet,
                 clientId, elapsed, evtexit, watcher, lock, cmds, sfrom,
                 xfrom, xargs, err, xchg, ops>>

\* lines 83 and 92: time.sleep(init_retry_time) returns
CtorSleepDone ==
  /\ hostAlive /\ pc["main"] \in {"c_csleep", "c_psleep"}
  /\ timer["main"] = 0
  /\ pc' = [pc EXCEPT !["main"] =
              IF pc["main"] = "c_csleep" THEN "c_connect" ELSE "c_poll"]
  /\ UNCHANGED <<cfg, envVars, objVars, timer, cmds, sfrom, xfrom, xargs,
                 err, xchg, ops, cerr, hist>>

\* lines 85-92: one pass of the discovery loop
CtorPoll(cl) ==
  /\ hostAlive /\ pc["main"] = "c_poll" /\ ~Hung
  /\ LET r == get_samp_clientId(cl, Title)
         h == [hist EXCEPT !.titleSeen =
                 @ \/ (hubUp /\ \E i \in 1..Len(cl) : cl[i].name = Title)]
         sleeps == hubUp /\ r.res = "none" /\ ~DeadlinePassed
     IN
     IF ~hubUp
       THEN \* get_subscribed_clients raises: the hub is gone
            /\ cerr' = "SAMPError"
            /\ pc' = [pc EXCEPT !["main"] = "c_except"]
            /\ hist' = Attempt(h, sleeps)
            /\ UNCHANGED <<clientId, timer>>
     ELSE IF r.res = "KeyError"
       THEN /\ cerr' = "KeyError"
            /\ pc' = [pc EXCEPT !["main"] = "c_except"]
            /\ hist' = Attempt(h, sleeps)
            /\ UNCHANGED <<clientId, timer>>
     ELSE IF r.res = "found"
       THEN /\ clientId' = r.id
            /\ hist' = [Attempt(h, sleeps) EXCEPT !.handshakeId = r.id,
                                                  !.poll = cl]
            /\ pc' = [pc EXCEPT !["main"] = "c_watch"]
            /\ UNCHANGED <<cerr, timer>>
     ELSE /\ clientId' = None
          /\ hist' = Attempt(h, sleeps)
          /\ IF DeadlinePassed
               THEN /\ cerr' = "ds9 not found"
                    /\ pc' = [pc EXCEPT !["main"] = "c_except"]
                    /\ timer' = timer
               ELSE /\ timer' = [timer EXCEPT !["main"] = RetryTime]
                    /\ pc' = [pc EXCEPT !["main"] = "c_psleep"]
                    /\ cerr' = cerr
  /\ UNCHANGED <<cfg, envVars, atexitReg, pathSet, made, procSet, sampSet,
                 connected, elapsed, evtexit, watcher, lock, cmds, sfrom,
                 xfrom, xargs, err, xchg, ops>>

\* lines 94-97: start the watchdog thread when poll_alive_time > 0; the
\* constructor then returns, and its local tstart is gone
CtorWatch ==
  /\ hostAlive /\ pc["main"] = "c_watch"
  /\ elapsed' = 0
  /\ hist' = [hist EXCEPT !.attempts = 0, !.late = 0, !.sleeps = 0,
                          !.poll = <<>>]
  /\ IF cfg.watch
       THEN /\ watcher' = "running"
            /\ pc' = [pc EXCEPT !["main"] = "idle", !["watch"] = "w_wait",
                                !["user"] = "idle"]
            /\ timer' = [timer EXCEPT !["watch"] = Period]
       ELSE /\ watcher' = watcher
            /\ pc' = [pc EXCEPT !["main"] = "idle", !["user"] = "idle"]
            /\ timer' = timer
  /\ UNCHANGED <<cfg, envVars, atexitReg, pathSet, made, procSet, sampSet,
                 connected, clientId, evtexit, lock, cmds, sfrom,
                 xfrom, xargs, err, xchg, ops, cerr>>

\* ------------------------------------------ DS9.set / DS9.get / DS9.alive
Kind(t) == IF sfrom[t] = "get" THEN "get" ELSE "set"

\* lines 161-162 and 166, for the thread t that holds the lock and has the
\* commands cs left: with no command left the with-block ends, the lock is
\* released and the call returns.  Otherwise ecall_and_wait is called: it
\* raises at once when self.__samp does not exist (AttributeError) or is
\* not connected; else the request goes to the hub, addressed to
\* self.__samp_clientId whatever its value.
Issue(t, cs, h) ==
  /\ cmds' = [cmds EXCEPT ![t] = cs]
  /\ IF cs = <<>>
       THEN /\ lock' = NoThread
            /\ pc' = [pc EXCEPT ![t] = "s_ret"]
            /\ xchg' = [xchg EXCEPT ![t] = NoXchg]
            /\ err' = err
            /\ hist' = h
     ELSE IF ~sampSet \/ ~connected
       THEN /\ lock' = NoThread
            /\ pc' = [pc EXCEPT ![t] = "s_ret"]
            /\ xchg' = [xchg EXCEPT ![t] = NoXchg]
            /\ err' = [err EXCEPT ![t] =
                         IF sampSet THEN "SAMPError" ELSE "AttributeError"]
            /\ hist' = h
     ELSE /\ lock' = t
          /\ pc' = [pc EXCEPT ![t] = "s_wait"]
          /\ xchg' = [xchg EXCEPT ![t] =
                        [kind |-> Kind(t), to |-> clientId,
                         cmd |-> Head(cs), age |-> 0]]
          /\ err' = err
          /\ hist' = [h EXCEPT !.set[t].issued = Append(@, Head(cs)),
                               !.unsetIssued = @ \/ clientId = None]

\* `with self.__lock:` of set (line 160) and get (line 165): the lock is
\* taken when it is free, and the first command is issued
CallLock(t) ==
  /\ hostAlive /\ pc[t] = "s_lock" /\ lock = NoThread
  /\ Issue(t, cmds[t], hist)
  /\ UNCHANGED <<cfg, envVars, atexitReg, pathSet, made, procSet, sampSet,
                 connected, clientId, elapsed, evtexit, watcher, timer,
                 sfrom, xfrom, xargs, ops, cerr>>

\* ecall_and_wait returns the peer's reply, a map whose samp.status is
\* samp.ok or samp.error (line 172); set discards it and goes on with the
\* next command whatever the status, get returns it.
CallReply(t, status) ==
  /\ hostAlive /\ pc[t] = "s_wait" /\ ~Hung
  /\ hubUp /\ xchg[t].to # None
  /\ Issue(t, Tail(cmds[t]),
           [hist EXCEPT
              !.set[t].answered = @ + 1,
              !.set[t].rejected =
                  IF status = "samp.error"
                    THEN @ \cup {Len(hist.set[t].issued)} ELSE @])
  /\ UNCHANGED <<cfg, envVars, atexitReg, pathSet, made, procSet, sampSet,
                 connected, clientId, elapsed, evtexit, watcher, timer,
                 sfrom, xfrom, xargs, ops, cerr>>

\* CallFails with the failure swallowed: set goes on with the next command
CallFailsContinues(t) ==
  /\ hostAlive /\ pc[t] = "s_wait" /\ ~Hung
  /\ \/ ~hubUp
     \/ xchg[t].to = None
     \/ xchg[t].age >= CallTimeout
  /\ Issue(t, Tail(cmds[t]), hist)
  /\ UNCHANGED <<cfg, envVars, atexitReg, pathSet, made, procSet, sampSet,
                 connected, clientId, elapsed, evtexit, watcher, timer,
                 sfrom, xfrom, xargs, ops, cerr>>

\* CallFails that leaves set/get with the lock still held
CallFailsKeepsLock(t) ==
  /\ hostAlive /\ pc[t] = "s_wait" /\ ~Hung
  /\ \/ ~hubUp
     \/ xchg[t].to = None
     \/ xchg[t].age >= CallTimeout
  /\ xchg' = [xchg EXCEPT ![t] = NoXchg]
  /\ lock' = lock
  /\ err' = [err EXCEPT ![t] = "SAMPError"]
  /\ pc' = [pc EXCEPT ![t] = "s_ret"]
  /\ UNCHANGED <<cfg, envVars, atexitReg, pathSet, made, procSet, sampSet,
                 connected, clientId, elapsed, evtexit, watcher, timer, cmds,
                 sfrom, xfrom, xargs, ops, cerr, hist>>

\* ecall_and_wait raises: the hub or the recipient is gone, or the timeout
\* given to the call has elapsed.  The with-block releases the lock and the
\* exception leaves set/get.
CallFails(t) ==
  /\ hostAlive /\ pc[t] = "s_wait" /\ ~Hung
  /\ \/ ~hubUp
     \/ xchg[t].to = None
     \/ xchg[t].age >= CallTimeout
  /\ xchg' = [xchg EXCEPT ![t] = NoXchg]
  /\ lock' = NoThread
  /\ err' = [err EXCEPT ![t] = "SAMPError"]
  /\ pc' = [pc EXCEPT ![t] = "s_ret"]
  /\ UNCHANGED <<cfg, envVars, atexitReg, pathSet, made, procSet, sampSet,
                 connected, clientId, elapsed, evtexit, watcher, timer, cmds,
                 sfrom, xfrom, xargs, ops, cerr, hist>>

\* AliveLock without the lock: the ping is sent whoever holds the lock
AliveNoLock(t) ==
  /\ hostAlive /\ pc[t] = "a_lock"
  /\ xchg' = [xchg EXCEPT ![t] =
                [kind |-> "ping", to |-> clientId, cmd |-> "ping",
                 age |-> 0]]
  /\ hist' = [hist EXCEPT
                !.lateProbes = IF evtexit /\ t = "watch" THEN @ + 1 ELSE @,
                !.unsetIssued = @ \/ clientId = None]
  /\ pc' = [pc EXCEPT ![t] = "a_wait"]
  /\ UNCHANGED <<cfg, envVars, objVars, timer, cmds, sfrom, xfrom, xargs,
                 err, ops, cerr>>

\* lines 142-143, for the thread t that runs alive() (the watchdog, or a
\* caller of the public method): `with self.__lock:` is entered when the
\* lock is free and enotify(self.__samp_clientId, 'samp.app.ping') is sent
AliveLock(t) ==
  /\ hostAlive /\ pc[t] = "a_lock" /\ lock = NoThread
  /\ lock' = t
  /\ xchg' = [xchg EXCEPT ![t] =
                [kind |-> "ping", to |-> clientId, cmd |-> "ping",
                 age |-> 0]]
  /\ hist' = [hist EXCEPT
                !.lateProbes = IF evtexit /\ t = "watch" THEN @ + 1 ELSE @,
                !.unsetIssued = @ \/ clientId = None]
  /\ pc' = [pc EXCEPT ![t] = "a_wait"]
  /\ UNCHANGED <<cfg, envVars, atexitReg, pathSet, made, procSet, sampSet,
                 connected, clientId, elapsed, evtexit, watcher, timer, cmds,
                 sfrom, xfrom, xargs, err, ops, cerr>>

\* ---------------------------------------------------- DS9.exit (106-130)
\* the call of exit(use_callback, main_thread) by thread t
EnterExit(t, from, use_callback, main_thread) ==
  /\ pc' = [pc EXCEPT ![t] = "x_event"]
  /\ xfrom' = [xfrom EXCEPT ![t] = from]
  /\ xargs' = [xargs EXCEPT ![t] = [use_callback |-> use_callback,
                                    main_thread |-> main_thread]]

Tried(t, step, raises) ==
  [hist EXCEPT !.exit[t].tried = Append(@, step),
               !.exit[t].raised = IF raises THEN @ \cup {step} ELSE @]

\* what the hub returns from enotify when it raises nothing: 'OK' (ds9's
\* hub, line 143) or any other value
Answers == {"OK", "other"}

\* line 143-144: the value of alive() for the ping of thread t.  enotify
\* raises when the hub or the recipient is gone, and alive() is then False
\* (`except: return False`); otherwise alive() is True only for 'OK'.
AliveValue(t, answer) == hubUp /\ xchg[t].to # None /\ answer = "OK"

\* AliveReply that clears self.__samp_clientId when the probe fails
AliveReplyForgets(t, answer) ==
  /\ hostAlive /\ pc[t] = "a_wait" /\ ~Hung
  /\ xchg' = [xchg EXCEPT ![t] = NoXchg]
  /\ lock' = NoThread
  /\ IF t # "watch"
       THEN /\ pc' = [pc EXCEPT ![t] = "idle"]
            /\ clientId' = IF AliveValue(t, answer) THEN clientId ELSE None
            /\ UNCHANGED <<xfrom, xargs, hist, timer>>
     ELSE IF AliveValue(t, answer)
       THEN /\ pc' = [pc EXCEPT ![t] = "w_wait"]
            /\ timer' = [timer EXCEPT ![t] = Period]
            /\ UNCHANGED <<xfrom, xargs, hist, clientId>>
       ELSE /\ EnterExit(t, "watch", TRUE, FALSE)
            /\ hist' = [hist EXCEPT !.watchCause = "dead"]
            /\ clientId' = None
            /\ timer' = timer
  /\ UNCHANGED <<cfg, envVars, atexitReg, pathSet, made, procSet, sampSet,
                 connected, elapsed, evtexit, watcher, cmds, sfrom, err,
                 ops, cerr>>

\* lines 143-144 and 150-156: enotify returns or raises, the with-block
\* releases the lock and alive() returns its value.  A caller gets the
\* value; in the watchdog the loop goes back to the wait when it is True,
\* and ends and calls exit(main_thread=False) when it is False.
AliveReply(t, answer) ==
  /\ hostAlive /\ pc[t] = "a_wait" /\ ~Hung
  /\ xchg' = [xchg EXCEPT ![t] = NoXchg]
  /\ lock' = NoThread
  /\ IF t # "watch"
       THEN /\ pc' = [pc EXCEPT ![t] = "idle"]
            /\ UNCHANGED <<xfrom, xargs, hist, timer>>
     ELSE IF AliveValue(t, answer)
       THEN /\ pc' = [pc EXCEPT ![t] = "w_wait"]
            /\ timer' = [timer EXCEPT ![t] = Period]
            /\ UNCHANGED <<xfrom, xargs, hist>>
       ELSE /\ EnterExit(t, "watch", TRUE, FALSE)
            /\ hist' = [hist EXCEPT !.watchCause = "dead"]
            /\ timer' = timer
  /\ UNCHANGED <<cfg, envVars, atexitReg, pathSet, made, procSet, sampSet,
                 connected, clientId, elapsed, evtexit, watcher, cmds, sfrom,
                 err, ops, cerr>>

\* WatchWake with a wait that only times out and whose result is ignored
WatchWakeTimeoutOnly ==
  /\ hostAlive /\ pc["watch"] = "w_wait"
  /\ timer["watch"] = 0
  /\ pc' = [pc EXCEPT !["watch"] = "a_lock"]
  /\ UNCHANGED <<cfg, envVars, objVars, timer, cmds, sfrom, xfrom, xargs,
                 err, xchg, ops, cerr, hist>>

\* WatchWake whose teardown is called as a main-thread one
WatchWakeJoins ==
  /\ hostAlive /\ pc["watch"] = "w_wait"
  /\ evtexit \/ timer["watch"] = 0
  /\ IF evtexit
       THEN /\ EnterExit("watch", "watch", TRUE, TRUE)
            /\ hist' = [hist EXCEPT !.watchCause = "signal"]
       ELSE /\ pc' = [pc EXCEPT !["watch"] = "a_lock"]
            /\ UNCHANGED <<xfrom, xargs, hist>>
  /\ timer' = [timer EXCEPT !["watch"] = 0]
  /\ UNCHANGED <<cfg, envVars, objVars, cmds, sfrom, err, xchg, ops, cerr>>

\* lines 148-152: self.__evtexit.wait(timeout=period) returns, True when
\* the event is set, False when the period has elapsed
WatchWake ==
  /\ hostAlive /\ pc["watch"] = "w_wait"
  /\ evtexit \/ timer["watch"] = 0
  /\ IF evtexit
       THEN /\ EnterExit("watch", "watch", TRUE, FALSE)
            /\ hist' = [hist EXCEPT !.watchCause = "signal"]
       ELSE /\ pc' = [pc EXCEPT !["watch"] = "a_lock"]
            /\ UNCHANGED <<xfrom, xargs, hist>>
  /\ timer' = [timer EXCEPT !["watch"] = 0]
  /\ UNCHANGED <<cfg, envVars, objVars, cmds, sfrom, err, xchg, ops, cerr>>

\* line 115: self.set('exit') is called
ExitCommand(t, h) ==
  /\ pc' = [pc EXCEPT ![t] = "s_lock"]
  /\ cmds' = [cmds EXCEPT ![t] = <<ExitCmd>>]
  /\ sfrom' = [sfrom EXCEPT ![t] = "exit"]
  /\ hist' = [h EXCEPT !.set[t] = [NoSetRec EXCEPT !.input = <<ExitCmd>>]]

\* lines 108-110: self.__evtexit.set(); without main_thread the join is
\* skipped
ExitSetEvent(t) ==
  /\ hostAlive /\ pc[t] = "x_event"
  /\ evtexit' = TRUE
  /\ silentFor' = IF silentFor > 0 THEN 0 ELSE silentFor
  /\ IF xargs[t].main_thread
       THEN /\ pc' = [pc EXCEPT ![t] = "x_join"]
            /\ hist' = Tried(t, "event", FALSE)
            /\ UNCHANGED <<cmds, sfrom>>
       ELSE ExitCommand(t, Tried(t, "event", FALSE))
  /\ UNCHANGED <<cfg, child, hubUp, hubFile, hostAlive, atexitReg, pathSet, made,
                 procSet, sampSet, connected, clientId, elapsed, watcher,
                 lock, timer, xfrom, xargs, err, xchg, ops, cerr>>

\* lines 110-113: self.__watcher.join(timeout=1); AttributeError when no
\* watchdog was started, an immediate return when its thread has ended
ExitJoin(t) ==
  /\ hostAlive /\ pc[t] = "x_join"
  /\ IF watcher = "running"
       THEN /\ pc' = [pc EXCEPT ![t] = "x_joinwait"]
            /\ timer' = [timer EXCEPT ![t] = JoinTimeout]
            /\ hist' = Tried(t, "join", FALSE)
            /\ UNCHANGED <<cmds, sfrom>>
       ELSE /\ ExitCommand(t, Tried(t, "join", watcher = "unset"))
            /\ timer' = timer
  /\ UNCHANGED <<cfg, envVars, objVars, xfrom, xargs, err, xchg, ops, cerr>>

\* the join returns: the watchdog thread has ended, or 1 s has elapsed
ExitJoinDone(t) ==
  /\ hostAlive /\ pc[t] = "x_joinwait"
  /\ watcher = "done" \/ timer[t] = 0
  /\ ExitCommand(t, hist)
  /\ timer' = [timer EXCEPT ![t] = 0]
  /\ UNCHANGED <<cfg, envVars, objVars, xfrom, xargs, err, xchg, ops, cerr>>

\* ExitCommandDone that goes on with the host termination signal, ahead of
\* the kill and the unlink
ExitCommandDoneKillsHost(t) ==
  /\ hostAlive /\ pc[t] = "s_ret" /\ sfrom[t] = "exit"
  /\ hist' = [Tried(t, "command", err[t] # "none") EXCEPT !.set[t] = NoSetRec]
  /\ err' = [err EXCEPT ![t] = "none"]
  /\ cmds' = [cmds EXCEPT ![t] = <<>>]
  /\ sfrom' = [sfrom EXCEPT ![t] = "set"]
  /\ pc' = [pc EXCEPT ![t] = "x_killhost"]
  /\ UNCHANGED <<cfg, envVars, objVars, timer, xfrom, xargs, xchg, ops,
                 cerr>>

\* lines 115-116: self.set('exit') returns or raises; `except: pass`
ExitCommandDone(t) ==
  /\ hostAlive /\ pc[t] = "s_ret" /\ sfrom[t] = "exit"
  /\ hist' = [Tried(t, "command", err[t] # "none") EXCEPT !.set[t] = NoSetRec]
  /\ err' = [err EXCEPT ![t] = "none"]
  /\ cmds' = [cmds EXCEPT ![t] = <<>>]
  /\ sfrom' = [sfrom EXCEPT ![t] = "set"]
  /\ pc' = [pc EXCEPT ![t] = "x_kill"]
  /\ UNCHANGED <<cfg, envVars, objVars, timer, xfrom, xargs, xchg, ops,
                 cerr>>

\* ExitKill without its try/except: the AttributeError leaves exit()
ExitKillPropagates(t) ==
  /\ hostAlive /\ pc[t] = "x_kill"
  /\ hist' = Tried(t, "kill", ~procSet)
  /\ child' = IF procSet /\ child \in {"running", "frozen"}
                THEN "killed" ELSE child
  /\ UNCHANGED <<hubUp, silentFor>>
  /\ pc' = [pc EXCEPT ![t] = IF procSet THEN "x_unlink" ELSE "x_raised"]
  /\ UNCHANGED <<cfg, hubFile, hostAlive, objVars, timer, cmds, sfrom,
                 xfrom, xargs, err, xchg, ops, cerr>>

\* lines 118-119: self.__process.kill() sends SIGKILL to a child that has
\* not terminated and returns without waiting for it; AttributeError when
\* no process was spawned
ExitKill(t) ==
  /\ hostAlive /\ pc[t] = "x_kill"
  /\ hist' = Tried(t, "kill", ~procSet)
  /\ child' = IF procSet /\ child \in {"running", "frozen"}
                THEN "killed" ELSE child
  /\ UNCHANGED <<hubUp, silentFor>>
  /\ pc' = [pc EXCEPT ![t] = "x_unlink"]
  /\ UNCHANGED <<cfg, hubFile, hostAlive, objVars, timer, cmds,
                 sfrom, xfrom, xargs, err, xchg, ops, cerr>>

\* lines 121-122: Path(self.__samp_hub_file).unlink(missing_ok=True);
\* AttributeError when the name was never assigned
ExitUnlink(t) ==
  /\ hostAlive /\ pc[t] = "x_unlink"
  /\ hist' = Tried(t, "unlink", ~pathSet)
  /\ hubFile' = IF pathSet THEN FALSE ELSE hubFile
  /\ pc' = [pc EXCEPT ![t] = "x_callback"]
  /\ UNCHANGED <<cfg, child, hubUp, silentFor, hostAlive, objVars,
                 timer, cmds, sfrom, xfrom, xargs, err, xchg, ops, cerr>>

\* lines 123-126: `if self.exit_callback:` then the callback, which may
\* raise; use_callback is not read
ExitCallback(t) ==
  /\ hostAlive /\ pc[t] = "x_callback"
  /\ IF cfg.cb
       THEN \E raises \in BOOLEAN :
              hist' = [Tried(t, "callback", raises) EXCEPT
                         !.cbCount = IF @ < 2 THEN @ + 1 ELSE @]
       ELSE hist' = hist
  /\ pc' = [pc EXCEPT ![t] = "x_killhost"]
  /\ UNCHANGED <<cfg, envVars, objVars, timer, cmds, sfrom, xfrom, xargs,
                 err, xchg, ops, cerr>>

\* lines 127-130: `if self.kill_on_exit:` os.kill(self.__pid, SIGTERM).
\* SIGTERM has its default disposition: the host process ends there.
ExitKillHost(t) ==
  /\ hostAlive /\ pc[t] = "x_killhost"
  /\ IF cfg.koe
       THEN /\ hist' = Tried(t, "killhost", FALSE)
            /\ hostAlive' = FALSE
       ELSE UNCHANGED <<hist, hostAlive>>
  /\ pc' = [pc EXCEPT ![t] = "x_ret"]
  /\ UNCHANGED <<cfg, child, hubUp, hubFile, silentFor, objVars,
                 timer, cmds, sfrom, xfrom, xargs, err, xchg, ops, cerr>>

\* exit() returns to its caller: line 100 of __init__ (raise e), a caller,
\* the interpreter's shutdown, or line 157 of the watchdog, whose thread
\* then ends
ExitReturn(t) ==
  /\ hostAlive /\ pc[t] = "x_ret"
  /\ pc' = [pc EXCEPT ![t] =
              CASE xfrom[t] = "ctor" -> "failed"
                [] xfrom[t] = "call" -> "idle"
                [] xfrom[t] = "atexit" -> "finalize"
                [] xfrom[t] = "del" -> "end"
                [] xfrom[t] = "watch" -> "w_done"]
  /\ watcher' = IF xfrom[t] = "watch" THEN "done" ELSE watcher
  /\ hist' = [hist EXCEPT !.exit[t] = NoExitRec,
                          !.exits = IF @ < 2 THEN @ + 1 ELSE @]
  /\ xfrom' = [xfrom EXCEPT ![t] = "call"]
  /\ xargs' = [xargs EXCEPT ![t] = [use_callback |-> TRUE,
                                    main_thread |-> TRUE]]
  /\ UNCHANGED <<cfg, envVars, atexitReg, pathSet, made, procSet, sampSet,
                 connected, clientId, elapsed, evtexit, lock, timer, cmds,
                 sfrom, err, xchg, ops, cerr>>

\* CtorExcept that re-raises without calling exit()
CtorExceptNoExit ==
  /\ hostAlive /\ pc["main"] = "c_except"
  /\ pc' = [pc EXCEPT !["main"] = "failed"]
  /\ UNCHANGED <<cfg, envVars, objVars, timer, cmds, sfrom, xfrom, xargs,
                 err, xchg, ops, cerr, hist>>

\* lines 98-99: `except Exception as e: self.exit()`
CtorExcept ==
  /\ hostAlive /\ pc["main"] = "c_except"
  /\ EnterExit("main", "ctor", TRUE, TRUE)
  /\ UNCHANGED <<cfg, envVars, objVars, timer, cmds, sfrom, err, xchg, ops,
                 cerr, hist>>

\* ------------------------------------------------------------ callers
Cmds(n) == [i \in 1..n |-> ClientName(i)]

\* a caller thread calls set(c1, ..., cn)
CallSet(t, n) ==
  /\ hostAlive /\ pc[t] = "idle" /\ ops < MaxOps
  /\ ops' = ops + 1
  /\ pc' = [pc EXCEPT ![t] = "s_lock"]
  /\ cmds' = [cmds EXCEPT ![t] = Cmds(n)]
  /\ sfrom' = [sfrom EXCEPT ![t] = "set"]
  /\ err' = [err EXCEPT ![t] = "none"]
  /\ hist' = [hist EXCEPT !.set[t] = [NoSetRec EXCEPT !.input = Cmds(n)]]
  /\ UNCHANGED <<cfg, envVars, objVars, timer, xfrom, xargs, xchg, cerr>>

\* a caller thread calls get(cmd)
CallGet(t) ==
  /\ hostAlive /\ pc[t] = "idle" /\ ops < MaxOps
  /\ ops' = ops + 1
  /\ pc' = [pc EXCEPT ![t] = "s_lock"]
  /\ cmds' = [cmds EXCEPT ![t] = Cmds(1)]
  /\ sfrom' = [sfrom EXCEPT ![t] = "get"]
  /\ err' = [err EXCEPT ![t] = "none"]
  /\ hist' = [hist EXCEPT !.set[t] = [NoSetRec EXCEPT !.input = Cmds(1)]]
  /\ UNCHANGED <<cfg, envVars, objVars, timer, xfrom, xargs, xchg, cerr>>

\* a caller thread calls alive()
CallAlive(t) ==
  /\ hostAlive /\ pc[t] = "idle" /\ ops < MaxOps
  /\ ops' = ops + 1
  /\ pc' = [pc EXCEPT ![t] = "a_lock"]
  /\ UNCHANGED <<cfg, envVars, objVars, timer, cmds, sfrom, xfrom, xargs,
                 err, xchg, cerr, hist>>

\* set/get returns or raises to the caller thread
CallReturn(t) ==
  /\ hostAlive /\ pc[t] = "s_ret" /\ sfrom[t] # "exit"
  /\ pc' = [pc EXCEPT ![t] = "idle"]
  /\ cmds' = [cmds EXCEPT ![t] = <<>>]
  /\ err' = [err EXCEPT ![t] = "none"]
  /\ sfrom' = [sfrom EXCEPT ![t] = "set"]
  /\ hist' = [hist EXCEPT !.set[t] = NoSetRec]
  /\ UNCHANGED <<cfg, envVars, objVars, timer, xfrom, xargs, xchg, ops,
                 cerr>>

\* a caller thread calls exit()
CallExit(t) ==
  /\ hostAlive /\ pc[t] = "idle" /\ ops < MaxOps
  /\ ops' = ops + 1
  /\ EnterExit(t, "call", TRUE, TRUE)
  /\ hist' = [hist EXCEPT !.explicitExit = TRUE]
  /\ UNCHANGED <<cfg, envVars, objVars, timer, cmds, sfrom, err, xchg, cerr>>

\* The interpreter shuts down: the other caller threads have ended, and the
\* hook registered at line 54 runs exit(use_callback=False, main_thread=True)
AtExit ==
  /\ hostAlive /\ atexitReg /\ pc["main"] \in {"idle", "failed"}
  /\ pc["user"] \in {"idle", "off"}
  /\ pc' = [pc EXCEPT !["main"] = "x_event", !["user"] = "off"]
  /\ xfrom' = [xfrom EXCEPT !["main"] = "atexit"]
  /\ xargs' = [xargs EXCEPT !["main"] = [use_callback |-> FALSE,
                                         main_thread |-> TRUE]]
  /\ UNCHANGED <<cfg, envVars, objVars, timer, cmds, sfrom, err, xchg, ops,
                 cerr, hist>>

\* lines 102-104: __del__ runs exit(use_callback=False, main_thread=True),
\* when the shutting-down interpreter finalizes the object.  A watchdog
\* thread that has not ended keeps a reference to self (line 95), and the
\* object is not finalized beside it.
Destructor ==
  /\ hostAlive /\ pc["main"] = "finalize" /\ watcher # "running"
  /\ EnterExit("main", "del", FALSE, TRUE)
  /\ UNCHANGED <<cfg, envVars, objVars, timer, cmds, sfrom, err, xchg, ops,
                 cerr, hist>>

\* The host process ends at the end of the interpreter's shutdown: after
\* the hook of line 54 has returned, with or without __del__ having run.
\* The watchdog is a daemon thread (line 96): the process does not wait
\* for it, and it is cut wherever it stands, inside its exit() included.
HostEnds ==
  /\ hostAlive /\ pc["main"] \in {"finalize", "end"}
  /\ hostAlive' = FALSE
  /\ UNCHANGED <<cfg, child, hubUp, hubFile, silentFor, objVars, thrVars,
                 hist>>

\* --------------------------------------------------------------- time
\* the watchdog loop is running and nobody has set the exit event
Watching ==
  /\ ~evtexit
  /\ pc["watch"] \in {"w_wait", "a_lock", "a_wait"}

\* A thread that can take a step now takes it before the clock advances,
\* and so does the end of a process that has SIGKILL pending.  A hub call
\* (set, get, ping) whose hub or recipient is gone fails at once; one that
\* a serving ds9 has not answered yet waits, a set/get up to its timeout.
Ready(t) ==
  CASE pc[t] \in {"off", "idle", "failed", "finalize", "end", "w_done"}
         -> FALSE
    [] pc[t] \in {"c_csleep", "c_psleep", "x_joinwait"}
         -> timer[t] = 0 \/ (pc[t] = "x_joinwait" /\ watcher = "done")
    [] pc[t] = "w_wait" -> evtexit \/ timer[t] = 0
    [] pc[t] \in {"s_lock", "a_lock"} -> lock = NoThread
    [] pc[t] = "s_wait" -> /\ ~Hung
                           /\ \/ ~hubUp
                              \/ xchg[t].to = None
                              \/ xchg[t].age >= CallTimeout
    [] pc[t] \in {"c_connect", "c_poll", "a_wait"} -> ~Hung
    [] OTHER -> TRUE

Tick ==
  /\ hostAlive
  /\ \A t \in Threads : ~Ready(t)
  /\ child # "killed"
  /\ timer' = [t \in Threads |-> IF timer[t] > 0 THEN timer[t] - 1 ELSE 0]
  /\ xchg' = [t \in Threads |->
                IF pc[t] = "s_wait" /\ xchg[t].age < CallTimeout
                  THEN [xchg[t] EXCEPT !.age = @ + 1]
                  ELSE xchg[t]]
  /\ elapsed' = IF pc["main"] \in {"c_csleep", "c_psleep"}
                     /\ elapsed <= Timeout
                  THEN elapsed + 1 ELSE elapsed
  /\ silentFor' = IF Watching /\ silentFor >= 0 /\ silentFor <= Period
                  THEN silentFor + 1 ELSE silentFor
  /\ UNCHANGED <<cfg, child, hubUp, hubFile, hostAlive, atexitReg,
                 pathSet, made, procSet, sampSet, connected, clientId, evtexit,
                 watcher, lock, pc, cmds, sfrom, xfrom, xargs, err, ops,
                 cerr, hist>>

Next ==
  \/ HubStart
  \/ PeerDies
  \/ PeerFreezes
  \/ ChildEnds
  \/ CtorStart
  \/ CtorMkdir
  \/ CtorSpawn
  \/ CtorConnect
  \/ CtorSleepDone
  \/ \E cl \in ClientLists : CtorPoll(cl)
  \/ CtorWatch
  \/ CtorExcept
  \/ \E t \in Threads : CallLock(t)
  \/ \E t \in Threads, st \in {"samp.ok", "samp.error"} : CallReply(t, st)
  \/ \E t \in Threads : CallFails(t)
  \/ \E t \in Threads : AliveLock(t)
  \/ \E t \in Threads, answer \in Answers : AliveReply(t, answer)
  \/ WatchWake
  \/ \E t \in Threads : ExitSetEvent(t)
  \/ \E t \in Threads : ExitJoin(t)
  \/ \E t \in Threads : ExitJoinDone(t)
  \/ \E t \in Threads : ExitCommandDone(t)
  \/ \E t \in Threads : ExitKill(t)
  \/ \E t \in Threads : ExitUnlink(t)
  \/ \E t \in Threads : ExitCallback(t)
  \/ \E t \in Threads : ExitKillHost(t)
  \/ \E t \in Threads : ExitReturn(t)
  \/ \E t \in Callers, n \in 1..MaxCmds : CallSet(t, n)
  \/ \E t \in Callers : CallGet(t)
  \/ \E t \in Callers : CallAlive(t)
  \/ \E t \in Callers : CallExit(t)
  \/ \E t \in Callers : CallReturn(t)
  \/ AtExit
  \/ Destructor
  \/ HostEnds
  \/ Tick

Spec == Init /\ [][Next]_vars

\* The threads are scheduled and the clock runs: a step that can be taken
\* is eventually taken.  The Supervisor is one without exit callback and
\* without kill_on_exit.
InitLive == Init /\ ~cfg.cb /\ ~cfg.koe

LiveSpec == InitLive /\ [][Next]_vars /\ WF_vars(Next)

\* ------------------------------------- naming across several Supervisors
\* Lines 58-61 as run by one more constructor of the same process, for any
\* title and any clock reading not earlier than the previous one.
Earlier(a, b) == a.sec < b.sec \/ (a.sec = b.sec /\ a.us < b.us)

Construct(title, tnow) ==
  /\ Len(made) < MaxSupervisors
  /\ made # <<>> => ~Earlier(tnow, made[Len(made)].tnow)
  /\ made' = Append(made, NameRec(title, tnow))
  /\ UNCHANGED <<cfg, envVars, atexitReg, pathSet, procSet, sampSet,
                 connected, clientId, elapsed, evtexit, watcher, lock,
                 thrVars, hist>>

InitNames == Init /\ cfg = [cb |-> FALSE, koe |-> FALSE, watch |-> FALSE]

NextNames == \E title \in Titles, tnow \in Times : Construct(title, tnow)

SpecNames == InitNames /\ [][NextNames]_vars

\* ------------------------------------------------------------- claims
InFlight == {t \in Threads : xchg[t].kind # "none"}
IsPrefix(a, b) == Len(a) <= Len(b) /\ SubSeq(b, 1, Len(a)) = a
Range(q) == {q[i] : i \in 1..Len(q)}

\* the steps an exit() running in t has to attempt
ExpectedSteps(t) ==
  {"event", "command", "kill", "unlink"}
    \cup (IF xargs[t].main_thread THEN {"join"} ELSE {})
    \cup (IF cfg.cb THEN {"callback"} ELSE {})
    \cup (IF cfg.koe THEN {"killhost"} ELSE {})

\* C1 as claimed: no exit() invocation, the first or a later one and
\* whatever called it, lets an exception out, and when an invocation
\* returns the ds9 process is not running (never spawned, or terminated)
\* and the hub endpoint file is absent.
Orig_C1 ==
  \A t \in Threads :
    /\ pc[t] # "x_raised"
    /\ pc[t] = "x_ret" => child \in {"none", "dead"} /\ ~hubFile

\* C2: when the constructor has raised "hub not found", the deadline had
\* passed and the teardown is complete: ds9 has been killed (SIGKILL sent
\* to it; it has terminated or is about to), the hub endpoint file is
\* absent, no watchdog exists and the exit event is set; and a constructor
\* that spawned ds9 and never connected raises nothing else.
Thm_C2 ==
  /\ pc["main"] = "failed" /\ cerr = "hub not found" =>
       /\ DeadlinePassed
       /\ child \in {"killed", "dead"} /\ ~hubFile
       /\ watcher = "unset" /\ evtexit
       /\ hist.exits >= 1
  /\ pc["main"] = "failed" /\ sampSet /\ ~connected =>
       cerr = "hub not found"

\* C2 witness: the constructor has raised "hub not found".
Wit_C2 == pc["main"] = "failed" /\ cerr = "hub not found"

\* C3 as claimed: when the hub was connected, every poll was answered and
\* none reported a client named title, the constructor fails with "ds9 not
\* found", after the teardown, with clientId unset and no watchdog.
Orig_C3 ==
  pc["main"] = "failed" /\ connected /\ ~hist.titleSeen
      /\ cerr # "SAMPError" =>
    /\ cerr = "ds9 not found"
    /\ clientId = None /\ watcher = "unset"
    /\ child \in {"killed", "dead"} /\ ~hubFile

\* C4: once the discovery loop has found the peer, self.__samp_clientId is
\* that id, not None, in every later state.
Thm_C4 ==
  hist.handshakeId # None =>
    clientId = hist.handshakeId /\ clientId # None

\* C4 witness: after the handshake the callers have made all their calls,
\* a probe has failed and an exit() has returned.
Wit_C4 ==
  /\ hist.handshakeId # None /\ ops = MaxOps
  /\ hist.watchCause = "dead" /\ hist.exits >= 1

\* C5: at most one exchange with the hub (ping, set, get, the exit
\* command) is in flight.
Thm_C5 == Cardinality(InFlight) <= 1

\* C5 witness: a caller's get is in flight while the watchdog waits for the
\* lock to probe and another thread's exit() waits for it to send the exit
\* command.
Wit_C5 ==
  \E t, u \in Callers :
    /\ t # u
    /\ xchg[t].kind = "get"
    /\ pc[u] = "s_lock" /\ sfrom[u] = "exit"
    /\ pc["watch"] = "a_lock"

\* the running set() of thread t (not a get)
InSet(t) == pc[t] \in {"s_lock", "s_wait", "s_ret"} /\ sfrom[t] # "get"

\* C6 as claimed: commands go out in input order, one at a time, and a
\* command the peer rejects ends the call: nothing is issued after it and
\* the call raises.
Orig_C6 ==
  \A t \in Threads : InSet(t) =>
    LET r == hist.set[t] IN
    /\ IsPrefix(r.issued, r.input)
    /\ r.answered <= Len(r.issued) /\ Len(r.issued) <= r.answered + 1
    /\ \A k \in r.rejected :
         /\ Len(r.issued) <= k
         /\ pc[t] = "s_ret" => err[t] # "none"

\* C6, amended: commands go out in input order, each after the reply to
\* the one before; when ecall_and_wait raises for command k the replies to
\* c1..c(k-1) have arrived, nothing more is issued and set raises; a reply
\* whose status is samp.error does not end the call, and a call that
\* returns normally has issued every command and got every reply.
Thm_C6 ==
  \A t \in Threads : InSet(t) =>
    LET r == hist.set[t] IN
    /\ IsPrefix(r.issued, r.input)
    /\ r.answered <= Len(r.issued) /\ Len(r.issued) <= r.answered + 1
    /\ pc[t] = "s_wait" => Len(r.issued) = r.answered + 1
    /\ pc[t] = "s_lock" => r.issued = <<>>
    /\ pc[t] = "s_wait" => xchg[t].cmd = r.input[Len(r.issued)]
    /\ pc[t] = "s_ret" /\ err[t] = "none" =>
         r.issued = r.input /\ r.answered = Len(r.input)
    /\ pc[t] = "s_ret" /\ err[t] # "none" =>
         r.answered < Len(r.input) /\ xchg[t].kind = "none"
    /\ pc[t] = "s_ret" /\ r.rejected # {} /\ r.answered = Len(r.input) =>
         err[t] = "none"

\* C6 witness: set(c1, c2) raised at c2 after the reply to c1.
Wit_C6 ==
  \E t \in Callers :
    /\ pc[t] = "s_ret" /\ sfrom[t] = "set" /\ err[t] # "none"
    /\ Len(hist.set[t].input) = 2 /\ Len(hist.set[t].issued) = 2
    /\ hist.set[t].answered = 1

\* C7 as claimed: with the watchdog loop running and the exit event unset,
\* a peer that has stopped answering the ping (ds9 dead, or alive and not
\* serving) is never left for more than one poll period without the
\* watchdog's teardown having started.
Orig_C7 ==
  Watching /\ child \in {"dead", "frozen"} => silentFor <= Period

\* C8 as claimed: the watchdog never sends a probe once the exit event is
\* set.
Orig_C8 == hist.lateProbes = 0

\* C8, amended: a wait that ends with the exit event set ends the loop, and
\* at most one probe is sent after the event was set (the one of a wait
\* that had timed out before).
Thm_C8 ==
  [][ /\ hist'.lateProbes <= 1
      /\ evtexit /\ pc["watch"] = "w_wait" /\ pc'["watch"] # "w_wait" =>
           pc'["watch"] = "x_event" /\ hist'.watchCause = "signal"
    ]_vars

\* C8 witness: the loop ended on the event after one late probe.
Wit_C8 == hist.watchCause = "signal" /\ hist.lateProbes = 1

\* C9 as claimed: no exchange in flight is addressed to an unset clientId,
\* whether the constructor succeeded or raised "hub not found" or "ds9 not
\* found".
Orig_C9 ==
  cerr \in {"none", "hub not found", "ds9 not found"} =>
    \A t \in InFlight : xchg[t].to # None

\* C10: no exit() lets an exception out, and an exit() about to return has
\* attempted every step it has to, whichever of them raised.
Thm_C10 ==
  \A t \in Threads :
    /\ pc[t] # "x_raised"
    /\ pc[t] = "x_ret" =>
         /\ Range(hist.exit[t].tried) = ExpectedSteps(t)
         /\ Len(hist.exit[t].tried) = Cardinality(ExpectedSteps(t))

\* C10 witness: an exit() about to return in which the join, the exit
\* command, the kill, the unlink and the callback all raised.
Wit_C10 ==
  \E t \in Threads :
    /\ pc[t] = "x_ret"
    /\ hist.exit[t].raised = {"join", "command", "kill", "unlink", "callback"}

\* thread t runs the exit() of the main control path (main_thread=True) and
\* has not reached the kill step
BeforeKill(t) ==
  /\ xargs[t].main_thread
  /\ \/ pc[t] \in {"x_event", "x_join", "x_joinwait"}
     \/ pc[t] \in {"s_lock", "s_wait", "s_ret"} /\ sfrom[t] = "exit"

\* the watchdog is inside a liveness probe that gets no answer
ProbeStuck == pc["watch"] = "a_wait" /\ child = "frozen"

\* C11 as claimed: a teardown of the main control path that has not reached
\* the kill step never waits for a watchdog stuck in a liveness probe; past
\* the bounded join nothing of it depends on the watchdog.
Orig_C11 ==
  \A t \in Callers :
    BeforeKill(t) /\ ProbeStuck =>
      ~(pc[t] = "s_lock" /\ lock = "watch")

\* C12 as claimed: any two Supervisors constructed in one process, whatever
\* their titles and clock readings (the same microsecond included), have
\* distinct hub endpoint files.
Orig_C12 ==
  \A i, j \in 1..Len(made) : i # j => made[i].file # made[j].file

\* C13 as claimed: the sanitized name holds only letters, digits, dots and
\* underscores, and sanitizing it again changes nothing.
Orig_C13 ==
  \A i \in 1..Len(made) :
    /\ \A k \in 1..Len(made[i].name) :
         made[i].name[k] \in Letters \cup Digits \cup {".", "_"}
    /\ Sanitize(made[i].name) = made[i].name

\* the constructor has taken tstart (line 73) and is in, or has just
\* left, its handshake loops; an exception raised before line 73 (mkdir,
\* Popen) reaches the handler with self.__samp unset
InHandshake ==
  /\ sampSet
  /\ pc["main"] \in {"c_connect", "c_csleep", "c_poll", "c_psleep",
                     "c_watch", "c_except"}

\* C14 as claimed: both loops count from the one tstart, a sleep starts
\* only with the deadline not passed, so the sleeps of both loops together
\* are bounded and so are the attempts, and at most one attempt is made
\* with the deadline passed.
Orig_C14 ==
  /\ pc["main"] \in {"c_csleep", "c_psleep"} =>
       elapsed - (RetryTime - timer["main"]) < Timeout
  /\ hist.sleeps * RetryTime < Timeout + RetryTime
  /\ hist.attempts <= hist.sleeps + 2
  /\ hist.late <= 1

\* C14, amended: the same, except that two attempts can be made with the
\* deadline passed: a connect that succeeds and the one discovery poll
\* that follows it; an attempt that fails with the deadline passed raises,
\* and a sleep of one loop counts against the other.
Thm_C14 ==
  /\ pc["main"] \in {"c_csleep", "c_psleep"} =>
       elapsed - (RetryTime - timer["main"]) < Timeout
  /\ hist.sleeps * RetryTime < Timeout + RetryTime
  /\ hist.attempts <= hist.sleeps + 2
  /\ InHandshake => elapsed = hist.sleeps * RetryTime - timer["main"]
  /\ hist.late <= 2
  /\ hist.late = 2 =>
       /\ connected
       /\ pc["main"] \notin {"c_connect", "c_csleep", "c_poll", "c_psleep"}
  /\ pc["main"] \in {"c_connect", "c_poll"} => hist.late = 0 \/
       (pc["main"] = "c_poll" /\ hist.late = 1)

\* C14 witness: the constructor raises "ds9 not found" after sleeps that
\* used up the timeout, a connect that succeeded with the deadline passed
\* and one poll.
Wit_C14 ==
  /\ pc["main"] = "c_except" /\ cerr = "ds9 not found"
  /\ hist.late = 2 /\ hist.sleeps * RetryTime >= Timeout

\* C15: when the discovery loop has found the peer, self.__samp_clientId is
\* the id of a client of that poll's list whose samp.name equals title, and
\* no client earlier in the list has that name; a client with another name
\* (one that contains title included) is not chosen.
Thm_C15 ==
  /\ pc["main"] = "c_watch" =>
       \E i \in 1..Len(hist.poll) :
         /\ hist.poll[i].id = clientId
         /\ hist.poll[i].name = Title
         /\ \A j \in 1..(i - 1) : hist.poll[j].name # Title
  /\ hist.handshakeId # None => clientId = hist.handshakeId

\* C15 witness: the poll that succeeded listed a client whose name contains
\* title and then one named title; the second was chosen.
Wit_C15 ==
  /\ pc["main"] = "c_watch" /\ Len(hist.poll) = 2
  /\ hist.poll[1].name = "Tx" /\ hist.poll[2].name = Title
  /\ clientId = hist.poll[2].id

\* the watchdog thread has left its loop and runs its exit()
WatchInExit ==
  pc["watch"] \in {"x_event", "x_join", "x_joinwait", "s_lock", "s_wait",
                   "s_ret", "x_kill", "x_unlink", "x_callback",
                   "x_killhost", "x_ret"}

\* C16: the watchdog thread calls exit() only on leaving its loop, on the
\* exit event or on a failed probe, and never again once it has ended; that
\* exit() runs with main_thread false, attempts no join and never waits for
\* a lock the watchdog itself holds; and unless a hub call hangs, the
\* thread, once in exit(), ends: it returns from exit(), or the host
\* process ends first and the daemon thread with it.
Thm_C16 ==
  /\ [](WatchInExit =>
          /\ ~xargs["watch"].main_thread
          /\ pc["watch"] \notin {"x_join", "x_joinwait"}
          /\ "join" \notin Range(hist.exit["watch"].tried)
          /\ hist.watchCause \in {"signal", "dead"}
          /\ pc["watch"] = "s_lock" => lock # "watch")
  /\ [](pc["watch"] = "w_done" => watcher = "done")
  /\ [][ /\ pc["watch"] = "w_done" => pc'["watch"] = "w_done"
         /\ pc'["watch"] = "x_event" /\ pc["watch"] # "x_event" =>
              pc["watch"] \in {"w_wait", "a_wait"}
     ]_vars
  /\ WatchInExit ~> (pc["watch"] = "w_done" \/ Hung \/ ~hostAlive)

\* C16 witness: the watchdog thread has ended after a teardown started by a
\* failed probe, in which it sent the exit command and attempted no join.
Wit_C16 ==
  /\ pc["watch"] = "x_ret" /\ hist.watchCause = "dead"
  /\ hist.exit["watch"].tried =
       <<"event", "command", "kill", "unlink">>

\* the steps of exit() in the order of lines 108-130
StepOrder ==
  <<"event", "join", "command", "kill", "unlink", "callback", "killhost">>

InExpected(t, step) == step \in ExpectedSteps(t)

\* the steps an exit() running in t has to attempt, in order
ExpectedSeq(t) ==
  LET keep(step) == InExpected(t, step) IN SelectSeq(StepOrder, keep)

\* C17: in every exit() the steps attempted so far are the first ones of:
\* set the exit event, join (main_thread only), exit command, kill of ds9,
\* unlink of the hub file, exit callback (when given), host termination
\* signal (with kill_on_exit); so the host termination signal comes after
\* the kill and the unlink of that invocation.
Thm_C17 ==
  \A t \in Threads :
    /\ IsPrefix(hist.exit[t].tried, ExpectedSeq(t))
    /\ pc[t] = "x_ret" /\ cfg.koe =>
         \E i, j, k \in 1..Len(hist.exit[t].tried) :
           /\ i < k /\ j < k
           /\ hist.exit[t].tried[i] = "kill"
           /\ hist.exit[t].tried[j] = "unlink"
           /\ hist.exit[t].tried[k] = "killhost"

\* C17 witness: a main-thread exit() with callback and kill_on_exit has
\* gone through its seven steps and sent the host termination signal.
Wit_C17 ==
  \E t \in Callers :
    /\ pc[t] = "x_ret" /\ ~hostAlive
    /\ hist.exit[t].tried = StepOrder

\* C18 as claimed: an exit() called with use_callback=False (the atexit
\* hook, __del__) does not call exit_callback.
Orig_C18 ==
  \A t \in Threads :
    "callback" \in Range(hist.exit[t].tried) => xargs[t].use_callback

\* C19 as claimed: exit_callback is called at most once in the life of the
\* Supervisor.
Orig_C19 == hist.cbCount <= 1

\* a thread waits to enter `with self.__lock:`
LockWaiters == {t \in Threads : pc[t] \in {"s_lock", "a_lock"}}

\* C20: the lock is held exactly by the thread whose exchange (set, get,
\* exit command, probe) is in flight, so never by a thread that has left
\* its operation, whether that returned or raised; and unless a hub call
\* hangs, a thread that waits for the lock gets it, as long as the host
\* process runs.
Thm_C20 ==
  /\ [](lock # NoThread =>
          pc[lock] \in {"s_wait", "a_wait"} /\ InFlight = {lock})
  /\ [](lock = NoThread => InFlight = {})
  /\ [](\A t \in Threads :
          pc[t] \in {"s_ret", "idle", "w_wait", "w_done", "x_kill"} =>
            lock # t)
  /\ \A t \in Threads :
       (t \in LockWaiters) ~> (t \notin LockWaiters \/ Hung \/ ~hostAlive)

\* C20 witness: a set that failed has returned the lock, and the lock is
\* now held by the watchdog's probe while a caller waits for it.
Wit_C20 ==
  \E t, u \in Callers :
    /\ pc[t] = "s_ret" /\ err[t] # "none" /\ sfrom[t] = "set"
    /\ lock = "watch" /\ pc["watch"] = "a_wait"
    /\ u \in LockWaiters

====
